---------------------------- MODULE Spec2Model ----------------------------
(***************************************************************************)
(* A model of the agih event pipeline (src/main.py, src/agents/*.py):      *)
(* the researcher node (query loop, block extraction, classification,      *)
(* validation, seed fallback, midway snapshot), the reporter node, the     *)
(* supervisor node and the driver that runs the compiled workflow.         *)
(*                                                                         *)
(* Text is modelled at the level of tokens: a response is a sequence of    *)
(* lines, a line a sequence of tokens, a token a record with a kind k      *)
(* ("w" word, "mk" markdown marker, "date" date literal, "url" URL).       *)
(* A date literal is kept structured (its written form, month word, day,   *)
(* ordinal suffix, commas, year) so that the regular expressions of        *)
(* _extract_event_details and the strptime formats of _validate_event act  *)
(* on what was written, not on an already parsed date.                     *)
(*                                                                         *)
(* Spec is the run of main.run: the compiled workflow researcher ->        *)
(* reporter -> supervisor.  The search provider and the LLM are            *)
(* collaborators: each call either raises or answers with a text drawn     *)
(* from a small catalogue.  File writes are taken to succeed.              *)
(* SpecCall is a call of ReporterAgent.__call__ (with format_events), the  *)
(* message-driven entry point the workflow does not use.                   *)
(***************************************************************************)
EXTENDS FiniteSets, Integers, Naturals, Sequences, TLC

(***************************************************************************)
(* Date strings                                                            *)
(***************************************************************************)

\* "YYYY-MM-DD", matched by r'\b\d{4}-\d{2}-\d{2}\b'
Iso(y, m, d) ==
  [form |-> "iso", wd |-> "", wcomma |-> FALSE, mon |-> "", m |-> m, d |-> d,
   ord |-> FALSE, comma |-> FALSE, y |-> y]

\* "<Month> D[st|nd|rd|th][,] YYYY", matched by the month-name pattern
Mdy(mon, d, ord, comma, y) ==
  [form |-> "mdy", wd |-> "", wcomma |-> FALSE, mon |-> mon, m |-> 0, d |-> d,
   ord |-> ord, comma |-> comma, y |-> y]

\* "<Weekday>[,] <Month> D[st|nd|rd|th][,] YYYY", matched by the weekday pattern
Wmdy(wd, wcomma, mon, d, ord, comma, y) ==
  [form |-> "wmdy", wd |-> wd, wcomma |-> wcomma, mon |-> mon, m |-> 0, d |-> d,
   ord |-> ord, comma |-> comma, y |-> y]

\* Python's None in the "date" field of the extracted details
NoDate ==
  [form |-> "none", wd |-> "", wcomma |-> FALSE, mon |-> "", m |-> 0, d |-> 0,
   ord |-> FALSE, comma |-> FALSE, y |-> 0]

\* %B: the full month names strptime accepts (0: not a full month name, as
\* for the abbreviations "Jun", "Sept" the month-name pattern also matches)
MonthNum(mon) ==
  CASE mon = "January" -> 1 [] mon = "February" -> 2 [] mon = "March" -> 3
    [] mon = "April" -> 4 [] mon = "May" -> 5 [] mon = "June" -> 6
    [] mon = "July" -> 7 [] mon = "August" -> 8 [] mon = "September" -> 9
    [] mon = "October" -> 10 [] mon = "November" -> 11 [] mon = "December" -> 12
    [] OTHER -> 0

IsLeap(y) == (y % 4 = 0 /\ y % 100 # 0) \/ y % 400 = 0

DaysInMonth(y, m) ==
  IF m = 2 THEN (IF IsLeap(y) THEN 29 ELSE 28)
  ELSE IF m \in {4, 6, 9, 11} THEN 30 ELSE 31

\* datetime(y, m, d) raises ValueError unless this holds
ValidYMD(y, m, d) ==
  /\ y >= 1 /\ y <= 9999
  /\ m >= 1 /\ m <= 12
  /\ d >= 1 /\ d <= DaysInMonth(y, m)

\* The value strptime could not produce (ValueError)
NoParse == [y |-> 0, m |-> 0, d |-> 0]

\* datetime.strptime(s, "%Y-%m-%d")
ParseIso(s) ==
  IF s.form = "iso" /\ ValidYMD(s.y, s.m, s.d)
  THEN [y |-> s.y, m |-> s.m, d |-> s.d] ELSE NoParse

\* datetime.strptime(s, "%B %d, %Y"): a full month name, the day with no
\* ordinal suffix, the comma
ParseMdy(s) ==
  IF /\ s.form = "mdy" /\ ~s.ord /\ s.comma
     /\ MonthNum(s.mon) # 0 /\ ValidYMD(s.y, MonthNum(s.mon), s.d)
  THEN [y |-> s.y, m |-> MonthNum(s.mon), d |-> s.d] ELSE NoParse

\* datetime.strptime(s, "%A, %B %d, %Y"): the weekday name is read and not
\* compared with the date
ParseWmdy(s) ==
  IF /\ s.form = "wmdy" /\ s.wcomma /\ ~s.ord /\ s.comma
     /\ MonthNum(s.mon) # 0 /\ ValidYMD(s.y, MonthNum(s.mon), s.d)
  THEN [y |-> s.y, m |-> MonthNum(s.mon), d |-> s.d] ELSE NoParse

\* The loop over date_formats: the first format that parses
ParseDate(s) ==
  IF ParseIso(s) # NoParse THEN ParseIso(s)
  ELSE IF ParseMdy(s) # NoParse THEN ParseMdy(s)
  ELSE ParseWmdy(s)

\* datetime <= datetime, both at midnight
DateLeq(a, b) ==
  \/ a.y < b.y
  \/ a.y = b.y /\ a.m < b.m
  \/ a.y = b.y /\ a.m = b.m /\ a.d <= b.d

target_start == [y |-> 2025, m |-> 5, d |-> 19]

target_end == [y |-> 2025, m |-> 5, d |-> 23]

\* InWindow with a slip: the comparisons exclude the two ends of the window
InWindowStrict(dt) ==
  /\ DateLeq(target_start, dt) /\ dt # target_start
  /\ DateLeq(dt, target_end) /\ dt # target_end

\* target_start <= event_date <= target_end
InWindow(dt) == DateLeq(target_start, dt) /\ DateLeq(dt, target_end)


(***************************************************************************)
(* Tokens, lines and text                                                  *)
(***************************************************************************)

\* A word or a run of prose without any date, URL or markup in it
W(s) == [k |-> "w", s |-> s]

\* A markdown marker: "### ", "- ", "* ", "**", the quote, the comma
Mk(s) == [k |-> "mk", s |-> s]

\* A date literal as written
D(dt) == [k |-> "date", dt |-> dt]

\* A token matching r'https?://[^\s<>"]+|www\.[^\s<>"]+'
U(s) == [k |-> "url", s |-> s]

\* A leading bracket link "[...]"
Lnk(s) == [k |-> "lnk", s |-> s]

\* A Perplexity reference "(pplx://...)"
Pplx(s) == [k |-> "pplx", s |-> s]

\* Whitespace at an end of a raw line
Sp == [k |-> "sp", s |-> " "]

\* The first n characters of token t, as title[:97] leaves it
Cut(t, n) == [k |-> "cut", of |-> t, n |-> n]

Digits(x) == IF x < 10 THEN 1 ELSE IF x < 100 THEN 2 ELSE IF x < 1000 THEN 3 ELSE 4

\* len() of a date literal as written
DateLen(dt) ==
  IF dt.form = "iso" THEN 10
  ELSE (IF dt.form = "wmdy"
        THEN Len(dt.wd) + (IF dt.wcomma THEN 1 ELSE 0) + 1 ELSE 0)
       + Len(dt.mon) + 1 + Digits(dt.d) + (IF dt.ord THEN 2 ELSE 0)
       + (IF dt.comma THEN 1 ELSE 0) + 1 + 4

\* len() of a token's text
TokLen(t) ==
  IF t.k = "cut" THEN t.n
  ELSE IF t.k = "date" THEN DateLen(t.dt)
  ELSE Len(t.s)

\* Markers are written against their neighbour; other tokens are separated
\* by one space
Gap(a, b) == IF a.k \in {"mk", "sp", "cut"} \/ b.k \in {"mk", "sp"} THEN 0 ELSE 1

RECURSIVE LineLen(_)
\* len() of a line
LineLen(line) ==
  IF line = <<>> THEN 0
  ELSE IF Len(line) = 1 THEN TokLen(line[1])
  ELSE TokLen(line[1]) + Gap(line[1], line[2]) + LineLen(Tail(line))

RECURSIVE StripLeft(_)
StripLeft(line) ==
  IF line # <<>> /\ Head(line).k = "sp" THEN StripLeft(Tail(line)) ELSE line

RECURSIVE StripRight(_)
StripRight(line) ==
  IF line # <<>> /\ line[Len(line)].k = "sp"
  THEN StripRight(SubSeq(line, 1, Len(line) - 1)) ELSE line

\* str.strip()
Strip(line) == StripRight(StripLeft(line))

\* str.lower() of the words the model's texts use
Lower(s) ==
  CASE s = "AI Founders Meetup" -> "ai founders meetup"
    [] s = "Agents Workshop" -> "agents workshop"
    [] s = "HACKATHON Weekend" -> "hackathon weekend"
    [] s = "Networking Night" -> "networking night"
    [] s = "Staff Training" -> "staff training"
    [] s = "In Summary" -> "in summary"
    [] s = "Overview" -> "overview"
    [] s = "Note:" -> "note:"
    [] s = "While there are" -> "while there are"
    [] OTHER -> s

\* needle in haystack, for an already lower-cased haystack
Contains(hay, needle) ==
  CASE needle = "meetup" ->
         hay \in {"ai founders meetup", "https://example.com/ai-meetup",
                  "https://example.com/meetup"}
    [] needle = "networking" -> hay \in {"networking night"}
    [] needle = "workshop" -> hay \in {"agents workshop"}
    [] needle = "training" -> hay \in {"staff training"}
    [] needle = "hackathon" -> hay \in {"hackathon weekend"}
    [] needle = "summary" -> hay \in {"in summary"}
    [] needle = "in summary" -> hay \in {"in summary"}
    [] needle = "overview" -> hay \in {"overview"}
    [] needle = "note:" -> hay \in {"note:"}
    [] needle = "while there are" -> hay \in {"while there are"}
    [] OTHER -> FALSE

\* All tokens of a block, line after line
RECURSIVE Flatten(_)
Flatten(block) ==
  IF block = <<>> THEN <<>> ELSE Head(block) \o Flatten(Tail(block))

\* needle in block.lower()
BlockHas(block, needle) ==
  \E i \in 1..Len(Flatten(block)) :
    LET t == Flatten(block)[i]
    IN t.k \in {"w", "url", "lnk", "pplx"} /\ Contains(Lower(t.s), needle)

(***************************************************************************)
(* Segmentation of the cleaned text into blocks                            *)
(***************************************************************************)

\* StartsBlock with a slip: the tuple of prefixes lacks '###'
StartsBlockNoHeading(line) ==
  /\ line # <<>>
  /\ \/ line[1] = Mk("**")
     \/ Len(line) >= 2 /\ line[1] \in {Mk("- "), Mk("* ")} /\ line[2] = Mk("**")

\* line.startswith(('###', '- **', '* **', '**'))
StartsBlock(line) ==
  /\ line # <<>>
  /\ \/ line[1] = Mk("### ")
     \/ line[1] = Mk("**")
     \/ Len(line) >= 2 /\ line[1] \in {Mk("- "), Mk("* ")} /\ line[2] = Mk("**")

RECURSIVE SegmentFrom(_, _, _, _)
\* The loop over cleaned_text.split('\n') from line i, with current_block
\* and event_blocks as they stand, and the flush after the loop
SegmentFrom(lines, i, current_block, event_blocks) ==
  IF i > Len(lines)
  THEN IF current_block # <<>> THEN Append(event_blocks, current_block)
       ELSE event_blocks
  ELSE LET line == Strip(lines[i])
       IN IF line = <<>>
          THEN IF current_block # <<>>
               THEN SegmentFrom(lines, i + 1, <<>>, Append(event_blocks, current_block))
               ELSE SegmentFrom(lines, i + 1, <<>>, event_blocks)
          ELSE IF StartsBlock(line)
          THEN IF current_block # <<>>
               THEN SegmentFrom(lines, i + 1, <<line>>, Append(event_blocks, current_block))
               ELSE SegmentFrom(lines, i + 1, <<line>>, event_blocks)
          ELSE SegmentFrom(lines, i + 1, Append(current_block, line), event_blocks)

Segment(lines) == SegmentFrom(lines, 1, <<>>, <<>>)

(***************************************************************************)
(* _extract_event_details                                                  *)
(***************************************************************************)

\* What date pattern p matches in token t: <<>> or the one matched string.
\* The month-name pattern also matches inside a weekday-form literal, where
\* its match is the literal without the weekday.
PatternMatch(p, t) ==
  IF t.k # "date" THEN <<>>
  ELSE IF p = "mdy" /\ t.dt.form \in {"mdy", "wmdy"}
  THEN <<Mdy(t.dt.mon, t.dt.d, t.dt.ord, t.dt.comma, t.dt.y)>>
  ELSE IF p = "iso" /\ t.dt.form = "iso" THEN <<t.dt>>
  ELSE IF p = "wmdy" /\ t.dt.form = "wmdy" THEN <<t.dt>>
  ELSE <<>>

RECURSIVE FindAll(_, _)
\* re.findall(pattern, text) over the tokens of the text, left to right
FindAll(p, toks) ==
  IF toks = <<>> THEN <<>>
  ELSE PatternMatch(p, Head(toks)) \o FindAll(p, Tail(toks))

\* date_patterns, in the order of the list
date_patterns == <<"mdy", "iso", "wmdy">>

RECURSIVE DatesFrom(_, _)
\* dates.extend(re.findall(pattern, text)) for the patterns from index i on
DatesFrom(i, toks) ==
  IF i > Len(date_patterns) THEN <<>>
  ELSE FindAll(date_patterns[i], toks) \o DatesFrom(i + 1, toks)

RECURSIVE TakeChars(_, _)
\* line[:n]: the tokens of the first n characters, the last one cut if the
\* boundary falls inside it
TakeChars(line, n) ==
  IF line = <<>> \/ n <= 0 THEN <<>>
  ELSE LET t == line[1]
           l == TokLen(t)
           g == IF Len(line) >= 2 THEN Gap(t, line[2]) ELSE 0
       IN IF l = n THEN <<t>>
          ELSE IF l > n THEN <<Cut(t, n)>>
          ELSE <<t>> \o TakeChars(Tail(line), n - l - g)

\* len(title) > 100 and title[:97] + "..."
TitleMax == 100

TitleKeep == 97

\* title = text.split('\n')[0].strip(), cut to 100 characters
RawTitle(block) ==
  LET first == IF block = <<>> THEN <<>> ELSE Strip(block[1])
  IN IF LineLen(first) > TitleMax
     THEN Append(TakeChars(first, TitleKeep), Mk("..."))
     ELSE first

\* ExtractEventDetails with a slip: a block without a date match is given
\* the first day of the window
ExtractEventDetailsDefaultDate(block) ==
  LET dates == DatesFrom(1, Flatten(block))
  IN [date |-> IF dates # <<>> THEN dates[1] ELSE Iso(2025, 5, 19),
      title |-> RawTitle(block),
      raw_text |-> block]

\* The returned dict; "time" is extracted too and never read by the caller
ExtractEventDetails(block) ==
  LET dates == DatesFrom(1, Flatten(block))
  IN [date |-> IF dates # <<>> THEN dates[1] ELSE NoDate,
      title |-> RawTitle(block),
      raw_text |-> block]

(***************************************************************************)
(* The title clean-up, event type and URL of _search_events               *)
(***************************************************************************)

DropHead(t, x) == IF t # <<>> /\ Head(t) = x THEN Tail(t) ELSE t

DropLast(t, x) ==
  IF t # <<>> /\ t[Len(t)] = x THEN SubSeq(t, 1, Len(t) - 1) ELSE t

RECURSIVE DropKind(_, _)
DropKind(t, k) ==
  IF t = <<>> THEN <<>>
  ELSE IF Head(t).k = k THEN DropKind(Tail(t), k)
  ELSE <<Head(t)>> \o DropKind(Tail(t), k)

\* re.sub(r'^\s*[-*]\s*', '', title): a leading bullet goes; of a leading
\* "**" one star goes and one stays
DropBullet(t) ==
  IF t = <<>> THEN t
  ELSE IF Head(t) \in {Mk("- "), Mk("* ")} THEN Tail(t)
  ELSE IF Head(t) = Mk("**") THEN <<Mk("*")>> \o Tail(t)
  ELSE t

\* The seven re.sub calls in their order, then strip()
CleanTitle(title) ==
  LET t1 == DropLast(DropHead(title, Mk("**")), Mk("**"))
      t2 == IF t1 # <<>> /\ Head(t1).k = "lnk" THEN Tail(t1) ELSE t1
      t3 == DropKind(t2, "pplx")
      t4 == DropHead(t3, Mk("### "))
      t5 == DropBullet(t4)
      t6 == DropLast(DropHead(t5, Mk("\"")), Mk("\""))
      t7 == DropLast(t6, Mk(","))
  IN Strip(t7)

\* EventType with a slip: the hackathon test comes before the workshop test
EventTypeHackathonFirst(block) ==
  IF \E w \in {"meetup", "networking"} : BlockHas(block, w) THEN "Meetup"
  ELSE IF \E w \in {"hackathon"} : BlockHas(block, w) THEN "Hackathon"
  ELSE IF \E w \in {"workshop", "training"} : BlockHas(block, w) THEN "Workshop"
  ELSE "Conference"

\* The if / elif / elif chain over block.lower(), "Conference" by default
EventType(block) ==
  IF \E w \in {"meetup", "networking"} : BlockHas(block, w) THEN "Meetup"
  ELSE IF \E w \in {"workshop", "training"} : BlockHas(block, w) THEN "Workshop"
  ELSE IF \E w \in {"hackathon"} : BlockHas(block, w) THEN "Hackathon"
  ELSE "Conference"

\* Python's None as a URL
NoUrl == "<None>"

\* A key the dict does not have
Absent == "<absent>"

RECURSIVE FirstUrl(_)
\* urls[0] of re.findall(url_pattern, block), None without a match
FirstUrl(toks) ==
  IF toks = <<>> THEN NoUrl
  ELSE IF Head(toks).k = "url" THEN Head(toks).s
  ELSE FirstUrl(Tail(toks))

(***************************************************************************)
(* _validate_event and the loop over the blocks in _search_events          *)
(***************************************************************************)

\* "location" of every event built from a block
DefaultLocation == "San Francisco"

\* _validate_event: title and date present, the date parses with one of the
\* three formats and lies in [target_start, target_end]
ValidateEvent(event) ==
  IF event.title = <<>> \/ event.date = NoDate THEN FALSE
  ELSE IF ParseDate(event.date) = NoParse THEN FALSE
  ELSE InWindow(ParseDate(event.date))

skip_words == {"summary", "in summary", "overview", "note:", "while there are"}

\* The two "continue" tests on summary blocks and JSON artifacts
SkipBlock(block) ==
  \/ \E w \in skip_words : BlockHas(block, w)
  \/ Flatten(block) # <<>> /\ Flatten(block)[1] \in {W("{"), W("\"answer\":")}

\* The event dict built from a block that has a date
BlockEvent(block) ==
  [title |-> CleanTitle(ExtractEventDetails(block).title),
   date |-> ExtractEventDetails(block).date,
   time |-> Absent,
   location |-> DefaultLocation,
   description |-> Absent,
   url |-> FirstUrl(Flatten(block)),
   type |-> EventType(block)]

\* Whether the loop appends the block's event to events
KeepsBlock(block) ==
  /\ Flatten(block) # <<>>
  /\ ~SkipBlock(block)
  /\ ExtractEventDetails(block).date # NoDate
  /\ ValidateEvent(BlockEvent(block))

RECURSIVE EventsOfBlocks(_)
\* The loop "for block in event_blocks", in block order
EventsOfBlocks(blocks) ==
  IF blocks = <<>> THEN <<>>
  ELSE (IF KeepsBlock(Head(blocks)) THEN <<BlockEvent(Head(blocks))>> ELSE <<>>)
       \o EventsOfBlocks(Tail(blocks))

\* What _search_events returns for the cleaned text the LLM answered with
SearchEvents(cleaned_text) == EventsOfBlocks(Segment(cleaned_text))

(***************************************************************************)
(* The texts the LLM may answer with                                       *)
(***************************************************************************)

\* Date literals: the window's ends, the days next to them, other months
\* and years, an impossible day, and the written forms strptime refuses
DateStrings ==
  {Iso(2025, 5, 18), Iso(2025, 5, 19), Iso(2025, 5, 23), Iso(2025, 5, 24),
   Iso(2025, 6, 1), Iso(2024, 5, 20), Iso(2025, 5, 32),
   Mdy("May", 18, FALSE, TRUE, 2025), Mdy("May", 19, FALSE, TRUE, 2025),
   Mdy("May", 23, FALSE, TRUE, 2025), Mdy("May", 24, FALSE, TRUE, 2025),
   Mdy("May", 20, TRUE, TRUE, 2025), Mdy("May", 20, FALSE, FALSE, 2025),
   Mdy("Jun", 1, FALSE, TRUE, 2025), Mdy("June", 1, FALSE, TRUE, 2025),
   Wmdy("Monday", TRUE, "May", 19, FALSE, TRUE, 2025),
   Wmdy("Friday", FALSE, "May", 23, FALSE, TRUE, 2025)}

\* One block: a title line and a line with the date
DatedText(ds) == << <<W("AI Summit")>>, <<D(ds)>> >>

\* "" : no line but one empty line
EmptyText == << <<>> >>

\* The block of the scenario "AI Founders Meetup\nMay 20, 2025\nhttps://...",
\* then two blocks with different titles and the same URL
MeetupText ==
  << <<W("AI Founders Meetup")>>,
     <<D(Mdy("May", 20, FALSE, TRUE, 2025))>>,
     <<U("https://example.com/meetup")>>,
     <<>>,
     <<Mk("### "), W("Agents Workshop")>>,
     <<D(Iso(2025, 5, 21)), U("https://example.com/x")>>,
     <<>>,
     <<Mk("**"), W("AI Summit"), Mk("**")>>,
     <<D(Iso(2025, 5, 22)), U("https://example.com/x")>> >>

\* A block naming a workshop and a hackathon, a hackathon alone, a summary
\* block, a JSON artifact, a block without a date, and an event between
\* lines that carry surrounding whitespace
MixedText ==
  << <<Mk("- "), Mk("**"), W("Agents Workshop"), Mk("**")>>,
     <<W("HACKATHON Weekend"), D(Iso(2025, 5, 19))>>,
     <<Mk("### "), W("HACKATHON Weekend")>>,
     <<D(Iso(2025, 5, 23))>>,
     <<>>,
     <<W("In Summary"), D(Iso(2025, 5, 20))>>,
     <<>>,
     <<W("{"), D(Iso(2025, 5, 20))>>,
     <<Sp>>,
     <<W("Staff Training")>>,
     <<>>,
     <<Sp, W("Networking Night"), Sp>>,
     <<D(Iso(2025, 5, 20))>> >>

\* A first line of 120 characters
LongWord ==
  "0123456789012345678901234567890123456789012345678901234567890123456789012345678901234567890123456789ABCDEFGHIJKLMNOPQRST"

\* A block whose first line is only bold markers, one on training, and one
\* with the long first line
TitlesText ==
  << <<Mk("**"), Mk("**")>>,
     <<D(Iso(2025, 5, 20))>>,
     <<>>,
     <<Mk("* "), Mk("**"), W("Staff Training"), Mk("**"), Mk(",")>>,
     <<D(Iso(2025, 5, 22))>>,
     <<>>,
     <<W(LongWord)>>,
     <<D(Iso(2025, 5, 21))>> >>

Responses ==
  {DatedText(ds) : ds \in DateStrings}
  \cup {EmptyText, MeetupText, MixedText, TitlesText}

\* _search_events on each of the texts, computed once for all the queries
\* that are answered with it
SearchEventsOf == [cleaned_text \in Responses |-> SearchEvents(cleaned_text)]

(***************************************************************************)
(* The workflow: main.run, the researcher, reporter and supervisor nodes   *)
(***************************************************************************)

VARIABLES
  pc,            \* where the run stands: "start", "researcher", "reporter",
                 \* "supervisor", "save", "done", "aborted"
  env,           \* the credentials present in the environment
  qi,            \* index of the next query of search_queries
  all_events,    \* scrape_events' accumulator
  contrib,       \* history: what _search_events returned for each query so far
  raised,        \* history: the queries whose search or LLM call raised
  last_text,     \* history: the cleaned text of the latest query that returned
  first_text,    \* history: the cleaned text of the first query, if it returned
  call_content,  \* history: the message content __call__ handed to format_events
  state,         \* the AgentState handed from node to node
  midway,        \* results/midway.json
  discord,       \* discord_events.txt
  final_results, \* final_results.json
  events_md,     \* results/events.md, with the "done" marker beside it
  exc            \* the exception that left main.run, "" when none did

vars ==
  <<pc, env, qi, all_events, contrib, raised, last_text, first_text,
    call_content, state, midway, discord, final_results, events_md, exc>>

\* The search_queries the model runs (the list in the code has seven)
NumQueries == 3

required_keys == {"OPENAI_API_KEY", "PERPLEXITY_API_KEY"}

\* self.sample_events
sample_events ==
  << [title |-> <<W("AI & Machine Learning Meetup")>>,
      date |-> Iso(2025, 5, 20),
      time |-> "18:00",
      location |-> "San Francisco Tech Hub",
      description |-> "Join us for an evening of AI discussions and networking",
      url |-> "https://example.com/ai-meetup",
      type |-> Absent] >>

NoFile == [written |-> FALSE, content |-> <<>>]

\* What json.loads makes of a message content: kind "notjson" with the text,
\* or kind "list" with the event dicts
Content(kind, text, events) == [kind |-> kind, text |-> text, events |-> events]

\* No message content was handed to format_events
NoContent == Content("none", "", <<>>)

\* initial_state of main.run; the keys the nodes add later are Absent, and
\* so is "current_node", which SupervisorAgent.__call__ reads and nothing
\* in the repository sets
initial_state ==
  [messages |-> <<>>, events |-> <<>>, status |-> "started",
   formatted_events |-> NoFile, error |-> Absent, next |-> Absent,
   review_message |-> Absent, current_node |-> Absent]

Init ==
  /\ pc = "start"
  /\ env \in SUBSET required_keys
  /\ qi = 1
  /\ all_events = <<>>
  /\ contrib = <<>>
  /\ raised = {}
  /\ last_text = <<>>
  /\ first_text = <<>>
  /\ call_content = NoContent
  /\ state = initial_state
  /\ midway = NoFile
  /\ discord = NoFile
  /\ final_results = NoFile
  /\ events_md = NoFile
  /\ exc = ""

\* MissingKeys with a slip: the loop stops after the first required key
MissingKeysFirstOnly(e) == {"OPENAI_API_KEY"} \ e

\* validate_api_keys: the required keys that are not set
MissingKeys(e) == required_keys \ e

\* main.run up to app.invoke: validate_api_keys raises on a missing key;
\* otherwise the workflow is built and entered at the researcher node
Start ==
  /\ pc = "start"
  /\ pc' = IF MissingKeys(env) # {} THEN "aborted" ELSE "researcher"
  /\ exc' = IF MissingKeys(env) # {} THEN "ValueError: Missing required API keys"
            ELSE ""
  /\ UNCHANGED <<env, qi, all_events, contrib, raised, last_text, first_text,
                 call_content, state, midway, discord, final_results, events_md>>

\* Extend with a slip: an event is added only if no earlier event has its
\* url, and None counts as a url like any other
ExtendUnseenUrl(acc, events) ==
  acc \o SelectSeq(events, LAMBDA e : \A i \in 1..Len(acc) : acc[i].url # e.url)

\* Extend with a slip: the new events are put in front of the earlier ones
ExtendInFront(acc, events) == events \o acc

\* all_events.extend(events)
Extend(acc, events) == acc \o events

\* SearchReturns with a slip: the extraction remembers the urls of the
\* events it returned before and leaves out an event whose url it has seen
SearchReturnsUnseen(cleaned_text) ==
  LET unseen == SelectSeq(SearchEventsOf[cleaned_text],
                          LAMBDA e : \A i \in 1..Len(all_events) :
                                       all_events[i].url # e.url)
  IN /\ pc = "researcher"
     /\ qi <= NumQueries
     /\ all_events' = Extend(all_events, unseen)
     /\ contrib' = Append(contrib, unseen)
     /\ last_text' = cleaned_text
     /\ first_text' = IF qi = 1 THEN cleaned_text ELSE first_text
     /\ qi' = qi + 1
     /\ UNCHANGED <<pc, env, raised, call_content, state, midway, discord,
                    final_results, events_md, exc>>

\* One pass of "for query in search_queries" in which the search and the
\* LLM answer: the events of the cleaned text are appended
SearchReturns(cleaned_text) ==
  /\ pc = "researcher"
  /\ qi <= NumQueries
  /\ all_events' = Extend(all_events, SearchEventsOf[cleaned_text])
  /\ contrib' = Append(contrib, SearchEventsOf[cleaned_text])
  /\ last_text' = cleaned_text
  /\ first_text' = IF qi = 1 THEN cleaned_text ELSE first_text
  /\ qi' = qi + 1
  /\ UNCHANGED <<pc, env, raised, call_content, state, midway, discord,
                 final_results, events_md, exc>>

\* AfterRaise with a slip: a failing query drops what was accumulated
AfterRaiseClears(acc) == <<>>

\* What the accumulator is after a query whose call raised: the except
\* clause of _search_events returns [] and the loop goes on
AfterRaise(acc) == Extend(acc, <<>>)

\* One pass in which the search call, the LLM call or the handling of their
\* answer raises
SearchRaises ==
  /\ pc = "researcher"
  /\ qi <= NumQueries
  /\ all_events' = AfterRaise(all_events)
  /\ contrib' = Append(contrib, <<>>)
  /\ raised' = raised \cup {qi}
  /\ qi' = qi + 1
  /\ UNCHANGED <<pc, env, last_text, first_text, call_content, state, midway,
                 discord, final_results, events_md, exc>>

\* WithFallback with a slip: no seed record, the events are handed on as
\* they are
WithFallbackNever(events) == events

\* WithFallback with a slip: the seed record is added whatever was found
WithFallbackAlways(events) == events \o sample_events

\* "if not all_events: all_events = self.sample_events"
WithFallback(events) == IF events = <<>> THEN sample_events ELSE events

\* LoopFinished with a slip: the loop is left after its first pass
LoopFinishedEarly(i) == i > 1

\* "for query in search_queries" is exhausted when the next index is i
LoopFinished(i) == i > NumQueries

\* The end of scrape_events and of ResearcherAgent.run: the fallback, the
\* midway snapshot, the state update
ResearcherDone ==
  /\ pc = "researcher"
  /\ LoopFinished(qi)
  /\ all_events' = WithFallback(all_events)
  /\ midway' = [written |-> TRUE, content |-> WithFallback(all_events)]
  /\ state' = [state EXCEPT !.events = WithFallback(all_events),
                            !.status = "events_found"]
  /\ last_text' = <<>>
  /\ first_text' = <<>>
  /\ pc' = "reporter"
  /\ UNCHANGED <<env, qi, contrib, raised, call_content, discord,
                 final_results, events_md, exc>>

\* len(description) > 200 and description[:197] + "..."
DescriptionMax == 200

DescriptionKeep == 197

\* ReporterAgent._format_event: the card of one event, with the defaults of
\* event.get for the keys the event lacks.  The description is kept with the
\* number of its characters the card shows.
FormatEvent(event) ==
  LET description == IF event.description = Absent THEN "" ELSE event.description
  IN [title |-> event.title,
      date |-> event.date,
      time |-> IF event.time = Absent THEN "TBD" ELSE event.time,
      location |-> event.location,
      description |-> description,
      shown |-> IF Len(description) > DescriptionMax THEN DescriptionKeep
                ELSE Len(description),
      url |-> IF event.url \in {NoUrl, Absent, ""} THEN "" ELSE event.url]

\* "\n\n".join of the cards, in the order of the events
FormatAll(events) == [i \in 1..Len(events) |-> FormatEvent(events[i])]

\* The except clause of ReporterAgent.run
ReporterFailed(st) ==
  [st EXCEPT !.status = "error", !.error = "Error formatting events"]

\* ReporterAgent.run.  fails: something inside the try block raises before
\* the output is saved, and the except clause records the error.
\* _format_event and _save_to_file catch what they raise themselves, so this
\* is an exception of the loop or the join (a MemoryError, say): the case
\* the except clause is written for.
ReporterRun(fails) ==
  /\ pc = "reporter"
  /\ IF state.events = <<>>
     THEN UNCHANGED <<state, discord>>
     ELSE IF fails
     THEN /\ state' = ReporterFailed(state)
          /\ UNCHANGED discord
     ELSE /\ discord' = [written |-> TRUE, content |-> FormatAll(state.events)]
          /\ state' = [state EXCEPT
                         !.formatted_events =
                           [written |-> TRUE, content |-> FormatAll(state.events)],
                         !.status = "formatted"]
  /\ pc' = "supervisor"
  /\ UNCHANGED <<env, qi, all_events, contrib, raised, last_text, first_text,
                 call_content, midway, final_results, events_md, exc>>

\* What self.llm.invoke(prompt) does in SupervisorAgent.run:
\*   "raise"    the call raises;
\*   "notjson"  the content is not JSON (json.loads raises JSONDecodeError);
\*   "badshape" the content is JSON without the keys "status", "next_step",
\*              "message", or not an object (KeyError, TypeError);
\*   "object"   a JSON object with the three keys.
\* The "status" and "next_step" of the objects the LLM may answer with
Reviews ==
  {<<"ready", "reporter">>, <<"needs_review", "researcher">>,
   <<"completed", "reporter">>}

SupervisorReplies ==
  {[kind |-> k, status |-> "", next_step |-> "", message |-> ""] :
     k \in {"raise", "notjson", "badshape"}}
  \cup {[kind |-> "object", status |-> sn[1], next_step |-> sn[2],
          message |-> "reviewed"] :
          sn \in Reviews}

\* The fallback review of the except json.JSONDecodeError clause
fallback_review ==
  [kind |-> "object", status |-> "needs_review", next_step |-> "researcher",
   message |-> "Error parsing LLM response, defaulting to review"]

\* review, after the try / except around json.loads
Review(reply) == IF reply.kind = "notjson" THEN fallback_review ELSE reply

\* Whether SupervisorAgent.run raises: the LLM call, or review["status"] on
\* JSON of another shape; neither is inside a try
SupervisorRaises(reply) == reply.kind \in {"raise", "badshape"}

\* The exception SupervisorAgent.run raises on such a reply
SupervisorException(reply) ==
  IF reply.kind = "raise" THEN "exception raised by self.llm.invoke"
  ELSE "KeyError or TypeError raised by review[\"status\"]"

\* The three assignments "state[...] = review[...]"
Reviewed(st, review) ==
  [st EXCEPT !.status = review.status, !.next = review.next_step,
             !.review_message = review.message]

\* AfterSupervisor with a slip: the edge out of the supervisor follows the
\* review's next_step
AfterSupervisorRouted(review) ==
  IF review.next_step = "researcher" THEN "researcher"
  ELSE IF review.next_step = "reporter" THEN "reporter"
  ELSE "save"

\* workflow.add_edge("supervisor", END): whatever the review, app.invoke
\* returns and main.run goes on to save the result
AfterSupervisor(review) == "save"

\* SupervisorAgent.run, and what app.invoke does with its outcome: an
\* exception leaves app.invoke and main.run (nothing catches it)
SupervisorRun(reply) ==
  /\ pc = "supervisor"
  /\ IF SupervisorRaises(reply)
     THEN /\ pc' = "aborted"
          /\ exc' = SupervisorException(reply)
          /\ UNCHANGED state
     ELSE /\ pc' = AfterSupervisor(Review(reply))
          /\ state' = Reviewed(state, Review(reply))
          /\ UNCHANGED exc
  /\ UNCHANGED <<env, qi, all_events, contrib, raised, last_text, first_text,
                 call_content, midway, discord, final_results, events_md>>

\* main.run after app.invoke returned: json.dump(result, ...)
SaveFinal ==
  /\ pc = "save"
  /\ final_results' = [written |-> TRUE, content |-> state]
  /\ pc' = "done"
  /\ UNCHANGED <<env, qi, all_events, contrib, raised, last_text, first_text,
                 call_content, state, midway, discord, events_md, exc>>

Next ==
  \/ Start
  \/ \E cleaned_text \in Responses : SearchReturns(cleaned_text)
  \/ SearchRaises
  \/ ResearcherDone
  \/ \E fails \in BOOLEAN : ReporterRun(fails)
  \/ \E reply \in SupervisorReplies : SupervisorRun(reply)
  \/ SaveFinal

Spec == Init /\ [][Next]_vars

\* The run is one thread of blocking calls, each of which returns or
\* raises: a step that can be taken is taken
FairSpec == Spec /\ WF_vars(Next)

(***************************************************************************)
(* Workflow properties                                                     *)
(***************************************************************************)

RECURSIVE Concat(_)
\* The sequences of a sequence, joined in order
Concat(seqs) == IF seqs = <<>> THEN <<>> ELSE Head(seqs) \o Concat(Tail(seqs))

\* The contributions of the queries that did not raise, in query order
Succeeded == [q \in 1..Len(contrib) |-> IF q \in raised THEN <<>> ELSE contrib[q]]

\* The researcher node has finished in this run
AfterResearcher == pc \in {"reporter", "supervisor", "save", "done"}

\* The latest query returned (did not raise) and the loop still runs
LastReturned ==
  pc = "researcher" /\ Len(contrib) >= 1 /\ Len(contrib) \notin raised
  /\ last_text # <<>>

\* The blocks of each text, and those whose event the loop appends
BlocksOf == [cleaned_text \in Responses |-> Segment(cleaned_text)]

KeptOf == [cleaned_text \in Responses |-> SelectSeq(Segment(cleaned_text), KeepsBlock)]

\* The blocks of the latest text
LastBlocks ==
  IF last_text \in Responses THEN BlocksOf[last_text] ELSE Segment(last_text)

\* The blocks of the latest text whose event the loop appended
LastKept ==
  IF last_text \in Responses THEN KeptOf[last_text]
  ELSE SelectSeq(Segment(last_text), KeepsBlock)

\* C1: every record that survived validation has a date that parses to a
\* day of 2025-05-19 .. 2025-05-23; of the latest text, every block that is
\* no summary or artifact, has a title and is dated exactly the first or
\* the last day of the window has its record among the query's events, and
\* no block dated the day before or the day after has.
C1_DateWindow ==
  /\ \A q \in 1..Len(contrib) : \A i \in 1..Len(contrib[q]) :
       LET d == ParseDate(contrib[q][i].date)
       IN d.y = 2025 /\ d.m = 5 /\ d.d >= 19 /\ d.d <= 23
  /\ LastReturned =>
       \A j \in 1..Len(LastBlocks) :
         LET b == LastBlocks[j]
             e == BlockEvent(b)
             d == ParseDate(e.date)
             got == \E i \in 1..Len(contrib[Len(contrib)]) :
                      contrib[Len(contrib)][i] = e
         IN /\ (~SkipBlock(b) /\ e.title # <<>> /\ e.date # NoDate
                /\ d \in {[y |-> 2025, m |-> 5, d |-> 19],
                          [y |-> 2025, m |-> 5, d |-> 23]}) => got
            /\ (e.date # NoDate
                /\ d \in {[y |-> 2025, m |-> 5, d |-> 18],
                          [y |-> 2025, m |-> 5, d |-> 24]}) => ~got

\* C1 witness: records dated the first and the last day were kept, and the
\* latest text, dated the day after the window, contributed nothing
C1_Witness ==
  /\ LastReturned
  /\ last_text = DatedText(Iso(2025, 5, 24))
  /\ contrib[Len(contrib)] = <<>>
  /\ \E i \in 1..Len(all_events) : ParseDate(all_events[i].date) = target_start
  /\ \E i \in 1..Len(all_events) : ParseDate(all_events[i].date) = target_end

\* C2 (as claimed): no two records of the accumulated event set share a URL
\* other than None
C2_UniqueUrls ==
  \A i, j \in 1..Len(state.events) :
    (i < j /\ state.events[i].url # NoUrl) => state.events[i].url # state.events[j].url

\* C4 (as claimed): with the credentials present the run never ends in an
\* unhandled abort
C4_AlwaysReturns == pc = "aborted" => MissingKeys(env) # {}

\* C5: while the loop runs the accumulator is the contributions of the
\* queries that returned, joined in query order, whatever queries raised in
\* between; every query is issued; and the researcher hands on exactly
\* those records (the seed when there are none).
C5_FailureContinues ==
  /\ pc = "researcher" =>
       /\ Len(contrib) = qi - 1
       /\ all_events = Concat(Succeeded)
  /\ AfterResearcher =>
       /\ Len(contrib) = NumQueries
       /\ Concat(Succeeded) # <<>> => state.events = Concat(Succeeded)

\* C5 witness: a query raised, queries before and after it contributed
\* records, and the researcher has finished
C5_Witness ==
  /\ pc = "reporter"
  /\ \E q \in raised :
       /\ \E a \in 1..(q - 1) : contrib[a] # <<>>
       /\ \E b \in (q + 1)..Len(contrib) : contrib[b] # <<>>

\* C6: when the queries together produced no record the researcher hands on
\* exactly the seed record, snapshots it and leaves a status other than
\* "error"; when some query produced a record the seed is not among the
\* events.
C6_SeedFallback ==
  AfterResearcher =>
    /\ Concat(contrib) = <<>> =>
         /\ state.events = sample_events
         /\ midway.content = sample_events
         /\ pc = "reporter" => state.status # "error"
    /\ Concat(contrib) # <<>> =>
         \A i \in 1..Len(state.events) : state.events[i] # sample_events[1]

\* C6 witness: no query produced a record (one raised, the others returned
\* nothing) and the researcher has handed on the seed
C6_Witness ==
  /\ pc = "reporter"
  /\ raised # {} /\ Cardinality(raised) < NumQueries
  /\ Concat(contrib) = <<>>
  /\ state.events = sample_events

RunStatuses ==
  {"searching", "extracting", "validating", "formatting", "completed", "error"}

\* C7 (as claimed): the status is always one of the six RunState statuses
C7_StatusSet == state.status \in RunStatuses

\* C8 (as claimed): once the status is completed or error no step changes it
C8_Terminal ==
  [][state.status \in {"completed", "error"} => state'.status = state.status]_vars

\* C9 (as claimed): a run whose formatting failed ends with status error and
\* the events computed before formatting
C9_FormatFailure ==
  (pc = "done" /\ state.error # Absent) =>
    /\ final_results.content.status = "error"
    /\ final_results.content.events = midway.content

\* The rule of C10 over the lower-cased block text
ClaimedType(block) ==
  LET has(w) == BlockHas(block, w)
  IN IF has("meetup") \/ has("networking") THEN "Meetup"
     ELSE IF has("workshop") \/ has("training") THEN "Workshop"
     ELSE IF has("hackathon") THEN "Hackathon"
     ELSE "Conference"

\* C10: the records of the latest text are those of its kept blocks, in
\* order, each typed by the first-match rule; a block with "workshop" and
\* "hackathon" (and no meetup word) is a Workshop, a block with none of the
\* keywords a Conference.
C10_TypeRule ==
  LastReturned =>
    LET evs == contrib[Len(contrib)]
    IN /\ Len(evs) = Len(LastKept)
       /\ \A i \in 1..Len(evs) :
            LET b == LastKept[i]
            IN /\ evs[i].type = ClaimedType(b)
               /\ (BlockHas(b, "workshop") /\ BlockHas(b, "hackathon")
                   /\ ~BlockHas(b, "meetup") /\ ~BlockHas(b, "networking"))
                  => evs[i].type = "Workshop"
               /\ (\A w \in {"meetup", "networking", "workshop", "training",
                             "hackathon"} : ~BlockHas(b, w))
                  => evs[i].type = "Conference"

\* C10 witness: the latest text had a block naming a workshop and a
\* hackathon, one naming only a hackathon and one naming a networking event
C10_Witness ==
  /\ LastReturned
  /\ last_text = MixedText
  /\ \E i \in 1..Len(LastKept) :
       BlockHas(LastKept[i], "workshop") /\ BlockHas(LastKept[i], "hackathon")
  /\ {contrib[Len(contrib)][i].type : i \in 1..Len(contrib[Len(contrib)])}
       = {"Workshop", "Hackathon", "Meetup"}

\* The date C11 claims for a block: the first match of the first pattern,
\* in the order weekday form, month form, ISO form, that matches at all
ClaimedDate(block) ==
  LET toks == Flatten(block)
  IN IF FindAll("wmdy", toks) # <<>> THEN FindAll("wmdy", toks)[1]
     ELSE IF FindAll("mdy", toks) # <<>> THEN FindAll("mdy", toks)[1]
     ELSE IF FindAll("iso", toks) # <<>> THEN FindAll("iso", toks)[1]
     ELSE NoDate

\* C11 (as claimed): the date extracted from every block of the latest text
\* is the first match of the first matching pattern in the order weekday
\* form, month form, ISO form, and the records kept of that text carry it;
\* a block with "Monday, May 19, 2025" yields the string with the weekday.
C11_DateOrder ==
  LastReturned =>
    /\ \A j \in 1..Len(LastBlocks) :
         ExtractEventDetails(LastBlocks[j]).date
           = ClaimedDate(LastBlocks[j])
    /\ \A i \in 1..Len(LastKept) :
         i <= Len(contrib[Len(contrib)]) =>
           contrib[Len(contrib)][i].date = ClaimedDate(LastKept[i])

\* C13: with a required credential missing the run stands at its start or
\* has aborted with the error of validate_api_keys; no query was issued,
\* no event collected, no snapshot, report or final result written, and
\* the state, its status included, is as it was built.
C13_AbortAtStartup ==
  (required_keys \ env # {}) =>
    /\ pc \in {"start", "aborted"}
    /\ pc = "aborted" => exc = "ValueError: Missing required API keys"
    /\ qi = 1 /\ contrib = <<>> /\ raised = {} /\ all_events = <<>>
    /\ midway = NoFile /\ discord = NoFile /\ events_md = NoFile
    /\ final_results = NoFile
    /\ state = initial_state

\* C13 witness: the run aborted with only one of the two credentials set
C13_Witness ==
  /\ pc = "aborted"
  /\ env = {"OPENAI_API_KEY"}
  /\ exc = "ValueError: Missing required API keys"
  /\ state.status = "started"

\* The number of records the queries before query q contributed
Offset(q) == Len(Concat(SubSeq(contrib, 1, q - 1)))

\* C14: the record of block i kept of query q stands in the accumulated
\* result at the place its (query index, block index) gives it, and the
\* result holds nothing else; the records of the latest text are those of
\* its kept blocks in the order of the blocks; the researcher hands the
\* records on, snapshots them and the reporter writes their cards in that
\* same order.
C14_StableOrder ==
  /\ pc = "researcher" =>
       /\ Len(all_events) = Offset(Len(contrib) + 1)
       /\ \A q \in 1..Len(contrib) : \A i \in 1..Len(contrib[q]) :
            all_events[Offset(q) + i] = contrib[q][i]
  /\ LastReturned =>
       contrib[Len(contrib)] = [i \in 1..Len(LastKept) |-> BlockEvent(LastKept[i])]
  /\ (AfterResearcher /\ Offset(Len(contrib) + 1) > 0) =>
       /\ Len(state.events) = Offset(Len(contrib) + 1)
       /\ midway.content = state.events
       /\ \A q \in 1..Len(contrib) : \A i \in 1..Len(contrib[q]) :
            state.events[Offset(q) + i] = contrib[q][i]
  /\ discord.written =>
       /\ Len(discord.content) = Len(state.events)
       /\ \A i \in 1..Len(state.events) :
            /\ discord.content[i].title = state.events[i].title
            /\ discord.content[i].date = state.events[i].date

\* C14 witness: two queries contributed different records, and of the
\* latest text several blocks were kept around blocks that were dropped
C14_Witness ==
  /\ LastReturned
  /\ Len(contrib) >= 2
  /\ contrib[1] # <<>> /\ contrib[1] # contrib[Len(contrib)]
  /\ last_text = MixedText
  /\ Len(LastKept) >= 3 /\ Len(LastKept) < Len(LastBlocks)
  /\ \E i, j \in 1..Len(LastKept) : LastKept[i] # LastKept[j]

\* C15: the snapshot exists only once every query's response has been
\* extracted, and exists from the end of the researcher on, holding the
\* records handed to the later stages; the report is written only with the
\* snapshot on disk and holds the formatting of those records; the final
\* result is written last, after the snapshot, with the same records.
C15_SnapshotOrder ==
  /\ midway.written => (qi > NumQueries /\ Len(contrib) = NumQueries)
  /\ AfterResearcher => (midway.written /\ midway.content = state.events)
  /\ discord.written =>
       /\ midway.written
       /\ state.formatted_events.written
       /\ discord.content = state.formatted_events.content
       /\ discord.content = FormatAll(midway.content)
  /\ final_results.written =>
       /\ midway.written
       /\ pc = "done"
       /\ final_results.content.events = midway.content
  /\ pc \in {"start", "researcher"} => (~discord.written /\ ~final_results.written)

\* C15 witness: a finished run in which queries contributed records, with
\* the snapshot, the report and the final result all written
C15_Witness ==
  /\ pc = "done"
  /\ midway.written /\ discord.written /\ final_results.written
  /\ Len(midway.content) >= 2
  /\ midway.content # sample_events

\* The raw text of a block cut like a title: the block as one line when it
\* has at most 100 characters, else its first 97 and "..."
ClaimedFallbackTitle(block) ==
  IF LineLen(Flatten(block)) > TitleMax
  THEN Append(TakeChars(Flatten(block), TitleKeep), Mk("..."))
  ELSE Flatten(block)

\* C16 (as claimed): a block of the latest text that is no summary or
\* artifact, has a date inside the window and a first line that is empty
\* once the markers are stripped, yields a record whose title is the raw
\* block text cut to 100 characters
C16_TitleFallback ==
  LastReturned =>
    \A j \in 1..Len(LastBlocks) :
      LET b == LastBlocks[j]
          d == ExtractEventDetails(b)
      IN (~SkipBlock(b) /\ d.date # NoDate /\ ParseDate(d.date) # NoParse
          /\ InWindow(ParseDate(d.date)) /\ CleanTitle(d.title) = <<>>)
         => \E i \in 1..Len(contrib[Len(contrib)]) :
              /\ contrib[Len(contrib)][i].title = ClaimedFallbackTitle(b)
              /\ contrib[Len(contrib)][i].date = d.date

\* Some date pattern matches somewhere in the block
HasDateMatch(block) ==
  \E i \in 1..Len(Flatten(block)) : Flatten(block)[i].k = "date"

\* The strings the date patterns match in the block
MatchedIn(block) ==
  {PatternMatch(p, Flatten(block)[i])[1] :
     <<p, i>> \in {pi \in {"mdy", "iso", "wmdy"} \X (1..Len(Flatten(block))) :
                    PatternMatch(pi[1], Flatten(block)[pi[2]]) # <<>>}}

\* C17: no record a query contributed is without a date; the records of
\* the latest text are no more than its blocks in which a date pattern
\* matches, and each of them has the title of such a block and a date that
\* was matched in that block.
C17_DateMandatory ==
  /\ \A q \in 1..Len(contrib) : \A i \in 1..Len(contrib[q]) :
       contrib[q][i].date # NoDate
  /\ LastReturned =>
       LET evs == contrib[Len(contrib)]
           dated == SelectSeq(LastBlocks, HasDateMatch)
       IN /\ Len(evs) <= Len(dated)
          /\ \A i \in 1..Len(evs) : \E j \in 1..Len(dated) :
               /\ evs[i].title = CleanTitle(RawTitle(dated[j]))
               /\ evs[i].date \in MatchedIn(dated[j])

\* C17 witness: the latest text had a titled block without any date, which
\* is no summary or artifact, next to blocks that gave records; no record
\* has its title
C17_Witness ==
  /\ LastReturned
  /\ contrib[Len(contrib)] # <<>>
  /\ \E j \in 1..Len(LastBlocks) :
       LET b == LastBlocks[j]
       IN /\ ~HasDateMatch(b) /\ ~SkipBlock(b)
          /\ CleanTitle(RawTitle(b)) # <<>>
          /\ \A i \in 1..Len(contrib[Len(contrib)]) :
               contrib[Len(contrib)][i].title # CleanTitle(RawTitle(b))

\* The records without a url, in their order
NoUrlOf(events) == SelectSeq(events, LAMBDA e : e.url = NoUrl)

\* A block that becomes a candidate without a url and passes the title and
\* date-window checks
PassingNoUrl(block) ==
  /\ Flatten(block) # <<>> /\ ~SkipBlock(block)
  /\ HasDateMatch(block)
  /\ \A i \in 1..Len(Flatten(block)) : Flatten(block)[i].k # "url"
  /\ CleanTitle(RawTitle(block)) # <<>>
  /\ ParseDate(ExtractEventDetails(block).date) # NoParse
  /\ InWindow(ParseDate(ExtractEventDetails(block).date))

\* C18: every block of the latest text that gives a url-less candidate
\* passing the title and date-window checks has its record among the
\* query's records, one record for each such block; the url-less records of
\* the accumulated result are all the url-less records the queries
\* contributed, repeated ones included, and so are those handed on.
C18_NoUrlKept ==
  /\ LastReturned =>
       LET blocks == SelectSeq(LastBlocks, PassingNoUrl)
       IN NoUrlOf(contrib[Len(contrib)])
            = [i \in 1..Len(blocks) |-> BlockEvent(blocks[i])]
  /\ pc = "researcher" =>
       NoUrlOf(all_events) = Concat([q \in 1..Len(contrib) |-> NoUrlOf(contrib[q])])
  /\ (AfterResearcher /\ Concat(contrib) # <<>>) =>
       NoUrlOf(state.events) = Concat([q \in 1..Len(contrib) |-> NoUrlOf(contrib[q])])

\* C18 witness: the researcher handed on at least four url-less records,
\* two of them equal and two with different titles
C18_Witness ==
  /\ pc = "reporter"
  /\ Len(NoUrlOf(state.events)) >= 4
  /\ \E i, j \in 1..Len(state.events) :
       /\ i < j /\ state.events[i].url = NoUrl
       /\ state.events[i] = state.events[j]
  /\ \E i, j \in 1..Len(state.events) :
       /\ state.events[i].url = NoUrl /\ state.events[j].url = NoUrl
       /\ state.events[i].title # state.events[j].title

NonBlank(text) ==
  SelectSeq([i \in 1..Len(text) |-> i], LAMBDA i : Strip(text[i]) # <<>>)

\* A stripped line begins with '###', '- **', '* **' or '**'
ClaimedMarker(line) ==
  \/ Head(line) \in {Mk("### "), Mk("**")}
  \/ Len(line) >= 2 /\ Head(line) \in {Mk("- "), Mk("* ")} /\ line[2] = Mk("**")

\* The number of the block that holds the k-th line of the blocks joined
BlockOf(blocks, k) ==
  CHOOSE b \in 1..Len(blocks) :
    /\ Len(Concat(SubSeq(blocks, 1, b - 1))) < k
    /\ k <= Len(Concat(SubSeq(blocks, 1, b)))

\* blocks partition the non-blank lines of text as C21 says
Partitions(text, blocks) ==
  LET nb == NonBlank(text)
  IN /\ \A b \in 1..Len(blocks) : blocks[b] # <<>>
     /\ Concat(blocks) = [k \in 1..Len(nb) |-> Strip(text[nb[k]])]
     /\ \A k \in 1..(Len(nb) - 1) :
          IF nb[k + 1] = nb[k] + 1 /\ ~ClaimedMarker(Strip(text[nb[k + 1]]))
          THEN BlockOf(blocks, k + 1) = BlockOf(blocks, k)
          ELSE BlockOf(blocks, k + 1) = BlockOf(blocks, k) + 1

\* The texts whose blocks partition their non-blank lines
Partitioned == {t \in Responses : Partitions(t, Segment(t))}

\* C21: the blocks of the text a query was answered with are not empty and,
\* joined in order, are exactly the stripped non-blank lines of the text in
\* their order; two neighbouring non-blank lines are in the same block when
\* no blank line stands between them and the second begins with no marker,
\* and otherwise the second is the first line of the next block.
C21_Partition == LastReturned => last_text \in Partitioned

\* C21 witness: the latest text has blank and whitespace-only lines, lines
\* with whitespace around them and a marker line right after a non-blank
\* line, which begins a block of two lines
C21_Witness ==
  /\ LastReturned
  /\ \E i \in 1..Len(last_text) : last_text[i] = <<Sp>>
  /\ \E i \in 1..Len(last_text) :
       Strip(last_text[i]) # <<>> /\ Strip(last_text[i]) # last_text[i]
  /\ \E i \in 2..Len(last_text) : \E b \in 1..Len(LastBlocks) :
       /\ Strip(last_text[i - 1]) # <<>>
       /\ ClaimedMarker(Strip(last_text[i]))
       /\ LastBlocks[b][1] = Strip(last_text[i])
       /\ Len(LastBlocks[b]) = 2
  /\ Len(LastBlocks) < Len(NonBlank(last_text))

\* The moves of control C22 allows: into the researcher node, from query to
\* query inside it, then reporter, supervisor and out; or out by an
\* exception at the start or in the supervisor
LinearMoves ==
  {<<"start", "researcher">>, <<"start", "aborted">>,
   <<"researcher", "researcher">>, <<"researcher", "reporter">>,
   <<"reporter", "supervisor">>, <<"supervisor", "save">>,
   <<"supervisor", "aborted">>, <<"save", "done">>}

\* C22: every step moves control along researcher -> reporter ->
\* supervisor -> end, never back to a node that has run (a step that stays
\* in the researcher is its next query), whatever status and next_step the
\* review gave; and the run comes to its end.
C22_RunsOnce ==
  /\ [][/\ <<pc, pc'>> \in LinearMoves
        /\ pc' = pc => qi' = qi + 1]_vars
  /\ <>(pc \in {"done", "aborted"})

\* C22 witness: the run ended with a review that names the researcher as
\* the next step, by the fallback for a reply that is no JSON
C22_Witness ==
  /\ pc = "done"
  /\ state.next = "researcher"
  /\ state.status = "needs_review"
  /\ state.review_message = fallback_review.message
  /\ final_results.written

\* C23: once the researcher has finished the event list of the state is not
\* empty, whatever the queries did; the reporter is entered with events,
\* and when it has run it has left its mark: the status is "formatted"
\* with the report written, or "error" with the error recorded.
C23_NeverEmpty ==
  /\ AfterResearcher => (state.events # <<>> /\ midway.content # <<>>)
  /\ pc = "reporter" => state.status = "events_found"
  /\ pc = "supervisor" =>
       \/ /\ state.status = "formatted" /\ discord.written
          /\ state.formatted_events.written
       \/ state.status = "error" /\ state.error # Absent

\* C23 witness: every query raised, and the reporter wrote the report of
\* the seed record
C23_Witness ==
  /\ pc = "supervisor"
  /\ raised = 1..NumQueries
  /\ state.events = sample_events
  /\ state.status = "formatted"
  /\ discord.written /\ Len(discord.content) = 1

(***************************************************************************)
(* ReporterAgent.format_events and ReporterAgent.__call__                  *)
(*                                                                         *)
(* The message-driven entry point of the reporter: the last human message  *)
(* carries the events as a JSON string, with the keys "Title", "Date",     *)
(* "URL", "Location", "Type".  A message content is modelled by what       *)
(* json.loads makes of it: kind "notjson", or kind "list" with the event   *)
(* dicts (a key the dict lacks is Absent, a missing "Date" is NoDate).     *)
(***************************************************************************)

\* The most event dicts in a message the model tries
MaxFormatEvents == 2

FEvent(title, date, url) ==
  [Title |-> title, Date |-> date, URL |-> url, Location |-> "San Francisco",
   Type |-> "Meetup"]

FEvents ==
  {FEvent("Monday Mixer", Wmdy("Monday", TRUE, "May", 19, FALSE, TRUE, 2025),
          "https://example.com/a"),
   FEvent("Tuesday Talks", Wmdy("Tuesday", TRUE, "May", 20, FALSE, TRUE, 2025),
          "https://example.com/b"),
   FEvent("Friday Finale", Wmdy("Friday", TRUE, "May", 23, FALSE, TRUE, 2025),
          "https://example.com/c"),
   FEvent("Weekend Hack", Wmdy("Saturday", TRUE, "May", 24, FALSE, TRUE, 2025),
          "https://example.com/d"),
   FEvent("ISO Night", Iso(2025, 5, 20), "https://example.com/e"),
   FEvent("Plain Date", Mdy("May", 21, FALSE, TRUE, 2025), "https://example.com/f"),
   FEvent("No Date", NoDate, "https://example.com/g"),
   FEvent("No Link", Wmdy("Monday", TRUE, "May", 19, FALSE, TRUE, 2025), Absent)}

RECURSIVE SeqsUpTo(_, _)
\* The sequences over S of length at most n
SeqsUpTo(S, n) ==
  IF n = 0 THEN {<<>>}
  ELSE SeqsUpTo(S, n - 1)
       \cup {Append(q, x) : q \in {r \in SeqsUpTo(S, n - 1) : Len(r) = n - 1}, x \in S}

\* What the last message may carry
MessageContents ==
  {Content("notjson", "Find AI events in SF", <<>>)}
  \cup {Content("list", "", evs) : evs \in SeqsUpTo(FEvents, MaxFormatEvents)}

day_names == <<"Monday", "Tuesday", "Wednesday", "Thursday", "Friday">>

\* event["Date"].split(",")[0]: the weekday when the date is written
\* "<Weekday>, ..."; any other head is no key the day loop reads
DayKey(date) ==
  IF date.form = "wmdy" /\ date.wcomma THEN date.wd ELSE "<other>"

\* events_by_day[day], in the order of the events
EventsOfDay(events, day) ==
  SelectSeq(events, LAMBDA e : DayKey(e.Date) = day)

\* Whether json.loads or the two loops raise: no JSON, an event without
\* "Date", or an event under a listed day without one of the keys the line
\* reads
FormatRaises(content) ==
  \/ content.kind = "notjson"
  \/ \E i \in 1..Len(content.events) : content.events[i].Date = NoDate
  \/ \E i \in 1..Len(content.events) :
       /\ \E d \in 1..Len(day_names) : DayKey(content.events[i].Date) = day_names[d]
       /\ Absent \in {content.events[i].Title, content.events[i].URL,
                      content.events[i].Location, content.events[i].Type}

EventLine(e) ==
  [kind |-> "event", day |-> "", title |-> e.Title, url |-> e.URL,
   location |-> e.Location, type |-> e.Type]

Line(kind, day) ==
  [kind |-> kind, day |-> day, title |-> "", url |-> "", location |-> "", type |-> ""]

RECURSIVE DaySections(_, _)
\* The loop over the five day names from index d: a day is written, with
\* its header, its event lines and a blank line, only if it has events
DaySections(events, d) ==
  IF d > Len(day_names) THEN <<>>
  ELSE (IF EventsOfDay(events, day_names[d]) # <<>>
        THEN <<Line("day", day_names[d])>>
             \o [i \in 1..Len(EventsOfDay(events, day_names[d])) |->
                   EventLine(EventsOfDay(events, day_names[d])[i])]
             \o <<Line("blank", "")>>
        ELSE <<>>)
       \o DaySections(events, d + 1)

\* format_events: the lines of the markdown, or the one line of the except
\* clause.  The week number of the header comes from the clock and is left
\* out of the line.
FormatEvents(content) ==
  IF FormatRaises(content) THEN <<Line("error", "")>>
  ELSE <<Line("week", ""), Line("blank", "")>> \o DaySections(content.events, 1)

Message(type, content) == [type |-> type, content |-> content]

\* The values of "current_node" the model tries
CurrentNodes == {Absent, "researcher", "reporter_node", "supervisor"}

\* The states __call__ is entered with: no message, or a last message from
\* a human or from the AI
InitCall ==
  /\ pc = "call"
  /\ env = required_keys
  /\ qi = 1
  /\ all_events = <<>>
  /\ contrib = <<>>
  /\ raised = {}
  /\ last_text = <<>>
  /\ first_text = <<>>
  /\ call_content = NoContent
  /\ \E msgs \in {<<>>} \cup {<<Message(t, c)>> : t \in {"human", "ai"},
                                                 c \in MessageContents},
        evs \in {<<>>, sample_events}, node \in CurrentNodes :
       state = [initial_state EXCEPT !.messages = msgs, !.events = evs,
                                     !.current_node = node]
  /\ midway = NoFile
  /\ discord = NoFile
  /\ final_results = NoFile
  /\ events_md = NoFile
  /\ exc = ""

\* The dict __call__ returns
Returned(messages, events, status) ==
  [initial_state EXCEPT !.messages = messages, !.events = events,
                        !.status = status, !.next = "end"]

\* ReporterAgent.__call__: format_events, save_output and the returned dict
ReporterCall ==
  /\ pc = "call"
  /\ IF state.messages # <<>> /\ state.messages[Len(state.messages)].type = "human"
     THEN /\ events_md' =
               [written |-> TRUE,
                content |-> FormatEvents(state.messages[Len(state.messages)].content)]
          /\ call_content' = state.messages[Len(state.messages)].content
          /\ state' =
               Returned(<<Message("ai", Content("notjson",
                            "Events formatted and saved successfully", <<>>))>>,
                        state.events, "completed")
     ELSE /\ UNCHANGED <<events_md, call_content>>
          /\ state' =
               Returned(<<Message("ai", Content("notjson", "No events to format", <<>>))>>,
                        state.events, "error")
  /\ pc' = "returned"
  /\ UNCHANGED <<env, qi, all_events, contrib, raised, last_text, first_text,
                 midway, discord, final_results, exc>>

\* name in state.get("current_node", ""), for the values of CurrentNodes
InCurrentNode(name, st) ==
  \/ name = "researcher" /\ st.current_node = "researcher"
  \/ name = "reporter" /\ st.current_node = "reporter_node"

\* A dict SupervisorAgent.__call__ returns
Routed(messages, events, status, next) ==
  [initial_state EXCEPT !.messages = messages, !.events = events,
                        !.status = status, !.next = next]

\* Route with a slip: the test for the reporter forgets the node
RouteAnyAi(st) ==
  LET last_message == st.messages[Len(st.messages)]
  IN IF st.messages = <<>>
     THEN Routed(<<Message("human", Content("notjson",
                     "Find AI events in SF for the upcoming week", <<>>))>>,
                 <<>>, "searching", "researcher")
     ELSE IF last_message.type = "ai" /\ InCurrentNode("researcher", st)
     THEN Routed(<<Message("human", Content("notjson",
                     "Format these events for Discord", <<>>))>>,
                 st.events, "formatting", "reporter")
     ELSE IF last_message.type = "ai"
     THEN Routed(<<Message("ai", Content("notjson",
                     "Task completed successfully", <<>>))>>,
                 st.events, "completed", "end")
     ELSE Routed(<<Message("ai", Content("notjson", "Unexpected state", <<>>))>>,
                 st.events, "error", "end")

\* The four returns of SupervisorAgent.__call__, in the order of its tests
Route(st) ==
  LET last_message == st.messages[Len(st.messages)]
  IN IF st.messages = <<>>
     THEN Routed(<<Message("human", Content("notjson",
                     "Find AI events in SF for the upcoming week", <<>>))>>,
                 <<>>, "searching", "researcher")
     ELSE IF last_message.type = "ai" /\ InCurrentNode("researcher", st)
     THEN Routed(<<Message("human", Content("notjson",
                     "Format these events for Discord", <<>>))>>,
                 st.events, "formatting", "reporter")
     ELSE IF last_message.type = "ai" /\ InCurrentNode("reporter", st)
     THEN Routed(<<Message("ai", Content("notjson",
                     "Task completed successfully", <<>>))>>,
                 st.events, "completed", "end")
     ELSE Routed(<<Message("ai", Content("notjson", "Unexpected state", <<>>))>>,
                 st.events, "error", "end")

\* SupervisorAgent.__call__
SupervisorCall ==
  /\ pc = "call"
  /\ state' = Route(state)
  /\ pc' = "routed"
  /\ UNCHANGED <<env, qi, all_events, contrib, raised, last_text, first_text,
                 call_content, midway, discord, final_results, events_md, exc>>

NextCall == ReporterCall \/ SupervisorCall

SpecCall == InitCall /\ [][NextCall]_vars

\* The day headers of a report, in their order
DayHeaders(lines) ==
  LET hs == SelectSeq(lines, LAMBDA l : l.kind = "day")
  IN [i \in 1..Len(hs) |-> hs[i].day]

\* C3 (as claimed): whatever the records, the formatter's output has the
\* five headers Monday .. Friday, once each and in that order
C3_FiveHeaders ==
  (pc = "returned" /\ events_md.written) => DayHeaders(events_md.content) = day_names

\* The weekday the fixed day -> date table of the window gives a date of
\* 2025-05-19 .. 2025-05-23
ClaimedDay(dt) == day_names[dt.d - 18]

\* The day of the nearest day header above line i of a report, "" if none
HeaderOf(lines, i) ==
  LET hs == {j \in 1..(i - 1) : lines[j].kind = "day"}
  IN IF hs = {} THEN ""
     ELSE lines[CHOOSE j \in hs : \A k \in hs : k <= j].day

\* _validate_event accepts a record with this title and date
PassesValidator(e) ==
  /\ e.Title \notin {Absent, ""}
  /\ ValidateEvent([title |-> <<W(e.Title)>>, date |-> e.Date])

\* C12 (as claimed): every record of the formatted list that passes the
\* validator has an event line in the report, and each of its event lines
\* stands under the header of the weekday the day -> date table gives its
\* date, whichever accepted format the date is written in
C12_Bucketed ==
  (pc = "returned" /\ call_content.kind = "list") =>
    \A k \in 1..Len(call_content.events) :
      LET e == call_content.events[k]
          lines == events_md.content
          mine == {i \in 1..Len(lines) :
                     lines[i].kind = "event" /\ lines[i].title = e.Title}
      IN PassesValidator(e) =>
           /\ mine # {}
           /\ \A i \in mine : HeaderOf(lines, i) = ClaimedDay(ParseDate(e.Date))

\* C19 (as claimed): in the report of a formatted list every weekday without
\* records has its header with the "(no events)" placeholder on the next
\* line; for an empty list the report is the week header, then the five
\* day headers each followed by the placeholder, and has no event line
C19_EmptyDays ==
  (pc = "returned" /\ call_content.kind = "list") =>
    LET lines == events_md.content
    IN /\ \A d \in 1..Len(day_names) :
            EventsOfDay(call_content.events, day_names[d]) = <<>> =>
              \E i \in 1..(Len(lines) - 1) :
                /\ lines[i] = Line("day", day_names[d])
                /\ lines[i + 1].kind = "no events"
       /\ call_content.events = <<>> =>
            /\ lines[1].kind = "week"
            /\ DayHeaders(lines) = day_names
            /\ \A i \in 1..Len(lines) : lines[i].kind # "event"

\* The last message of the state is an AI message and "current_node" names
\* the node
AiFrom(node, st) ==
  /\ st.messages # <<>>
  /\ st.messages[Len(st.messages)].type = "ai"
  /\ st.current_node \in
       (IF node = "reporter" THEN {"reporter", "reporter_node"}
        ELSE {"researcher", "researcher_node"})

\* C24: a step of SupervisorAgent.__call__ returns one of the pairs
\* searching/researcher, formatting/reporter, completed/end, error/end;
\* searching exactly when the state has no message, formatting only after
\* an AI message from the researcher node, completed only after an AI
\* message from the reporter node, error in every other state; the events
\* are those of the input, except with no message, where they are empty.
C24_Routing ==
  [][(pc = "call" /\ pc' = "routed") =>
       /\ <<state'.status, state'.next>> \in
            {<<"searching", "researcher">>, <<"formatting", "reporter">>,
             <<"completed", "end">>, <<"error", "end">>}
       /\ state'.status = "searching" <=> state.messages = <<>>
       /\ state'.status = "formatting" => AiFrom("researcher", state)
       /\ state'.status = "completed" => AiFrom("reporter", state)
       /\ (state.messages # <<>> /\ ~AiFrom("researcher", state)
           /\ ~AiFrom("reporter", state)) => state'.status = "error"
       /\ state'.events = IF state.messages = <<>> THEN <<>> ELSE state.events]_vars

\* C24 witness: the routing step sent a state with events on to the
\* reporter
C24_Witness ==
  /\ pc = "routed"
  /\ state.status = "formatting" /\ state.next = "reporter"
  /\ state.events = sample_events

=============================================================================
